---- MODULE Spec2Model ----
(***************************************************************************)
(* Model of the Infinity data scripts: the query tool                      *)
(* (scripts/query_infinity.py: Unit, Database, main) and the faction       *)
(* identifier (scripts/identify_factions.py: main).                        *)
(*                                                                         *)
(* Python strings are sequences of code points, dicts are sequences of     *)
(* <<key, value>> pairs in insertion order, JSON objects are               *)
(* records whose optional keys may be missing from the domain.             *)
(***************************************************************************)
EXTENDS Integers, Sequences, FiniteSets, TLC

VARIABLES
    meta,            \* kind and content of <data_dir>/metadata.json
    files,           \* data file name -> its kind and content
    pc,              \* query tool: "init", "loading", "ready", "raised", "exit"
    pending,         \* query tool: glob result not yet iterated by load_units
    load_order,      \* query tool: files iterated by load_units, in order
    reads,           \* files handed to load_json so far (either tool)
    weapons,         \* Database.weapons
    skills,          \* Database.skills
    equipment,       \* Database.equipment
    factions,        \* Database.factions
    units,           \* Database.units
    query,           \* arguments of the last search_units call
    results,         \* value returned by the last search_units call
    searched,        \* a search_units call has been made
    recomputed,      \* number of explicit compute_access recomputations
    output,          \* what main printed after the last search
    fpc,             \* faction identifier: "init", "files", "done"
    todo,            \* faction identifier: sorted files still to analyse
    rows             \* faction identifier: printed rows, in order

vars == <<meta, files, pc, pending, load_order, reads, weapons, skills,
          equipment, factions, units, query, results, searched, recomputed,
          output, fpc, todo, rows>>

---------------------------------------------------------------------------
(* Bounds *)

MaxUnits == 2          \* units per data file (query tool)
MaxRecompute == 1      \* explicit compute_access recomputations
FMaxUnits == 4         \* units per data file (faction identifier)

---------------------------------------------------------------------------
(* Characters and strings *)

\* A character is its code point; a string is a sequence of characters.
IsUpper(c) == c >= 65 /\ c <= 90       \* "A" .. "Z"

\* str.lower()
Lower(s) == [i \in 1..Len(s) |-> IF IsUpper(s[i]) THEN s[i] + 32 ELSE s[i]]

RECURSIVE LStrip(_)
LStrip(s) == IF s # <<>> /\ Head(s) = 32 THEN LStrip(Tail(s)) ELSE s

RECURSIVE RStrip(_)
RStrip(s) ==
    IF s # <<>> /\ s[Len(s)] = 32 THEN RStrip(SubSeq(s, 1, Len(s) - 1))
                                   ELSE s

\* str.strip()
Strip(s) == RStrip(LStrip(s))

\* Python's `a in b` on strings
Contains(a, b) ==
    \E i \in 0..(Len(b) - Len(a)) : SubSeq(b, i + 1, i + Len(a)) = a

\* Python's `a < b` on strings
RECURSIVE StrLess(_, _)
StrLess(a, b) ==
    IF b = <<>> THEN FALSE
    ELSE IF a = <<>> THEN TRUE
    ELSE IF Head(a) # Head(b) THEN Head(a) < Head(b)
    ELSE StrLess(Tail(a), Tail(b))

\* str(n) for the small non-negative integers used as faction IDs
IntStr(n) == IF n < 10 THEN <<48 + n>> ELSE <<48 + (n \div 10), 48 + (n % 10)>>

---------------------------------------------------------------------------
(* Dicts: sequences of <<key, value>> in insertion order *)

DictKeys(d) == {d[i][1] : i \in 1..Len(d)}

DictGet(d, k) == d[CHOOSE i \in 1..Len(d) : d[i][1] = k][2]

\* d[k] = v
DictSet(d, k, v) ==
    IF k \in DictKeys(d)
    THEN [i \in 1..Len(d) |-> IF d[i][1] = k THEN <<k, v>> ELSE d[i]]
    ELSE Append(d, <<k, v>>)

\* obj.get(key, default) on a JSON object
Get(obj, key, default) == IF key \in DOMAIN obj THEN obj[key] ELSE default

\* a list without its duplicates, as a set
Range(s) == {s[i] : i \in 1..Len(s)}

---------------------------------------------------------------------------
(* Unit and Unit.compute_access *)

\* self.all_*_ids.add(r.get('id')) for every r of one reference list
RECURSIVE AddRefs(_, _)
AddRefs(acc, refs) ==
    IF refs = <<>> THEN acc
    ELSE AddRefs(acc \cup {Head(refs).id}, Tail(refs))

\* the body shared by the loop over a group's profiles and the loop over its
\* options: skills, then equip, then weapons of every entry
RECURSIVE WalkEntries(_, _)
WalkEntries(acc, entries) ==
    IF entries = <<>> THEN acc
    ELSE WalkEntries(
            [s |-> AddRefs(acc.s, Get(Head(entries), "skills", <<>>)),
             e |-> AddRefs(acc.e, Get(Head(entries), "equip", <<>>)),
             w |-> AddRefs(acc.w, Get(Head(entries), "weapons", <<>>))],
            Tail(entries))

\* faulty variant: the options of a profile group are not walked
WalkGroupNoOptions(acc, pg) ==
    WalkEntries(acc, Get(pg, "profiles", <<>>))

\* one iteration of `for pg in self.profile_groups`
WalkGroup(acc, pg) ==
    WalkEntries(WalkEntries(acc, Get(pg, "profiles", <<>>)),
                Get(pg, "options", <<>>))

RECURSIVE WalkGroups(_, _)
WalkGroups(acc, pgs) ==
    IF pgs = <<>> THEN acc
    ELSE WalkGroups(WalkGroup(acc, Head(pgs)), Tail(pgs))

\* Unit.compute_access: the three sets are reset, then filled
ComputeAccess(u) ==
    LET acc == WalkGroups([s |-> {}, e |-> {}, w |-> {}], u.profile_groups)
    IN  [u EXCEPT !.all_weapon_ids = acc.w,
                  !.all_skill_ids = acc.s,
                  !.all_equipment_ids = acc.e]

\* Unit(...) as constructed by load_units, followed by compute_access()
MakeUnit(u_data) ==
    ComputeAccess([id |-> u_data.id,
                   isc |-> u_data.isc,
                   name |-> u_data.name,
                   factions |-> Get(u_data, "factions", <<>>),
                   profile_groups |-> Get(u_data, "profileGroups", <<>>),
                   all_weapon_ids |-> {},
                   all_skill_ids |-> {},
                   all_equipment_ids |-> {}])

has_weapon(u, weapon_id) == weapon_id \in u.all_weapon_ids
has_skill(u, skill_id) == skill_id \in u.all_skill_ids
has_equipment(u, equipment_id) == equipment_id \in u.all_equipment_ids

---------------------------------------------------------------------------
(* The input data: names, unit records, metadata, files *)

sCombiRifle == <<67, 111, 109, 98, 105, 32, 82, 105, 102, 108, 101>>   \* "Combi Rifle"
sRifle == <<82, 105, 102, 108, 101>>   \* "Rifle"
sMimetism == <<77, 105, 109, 101, 116, 105, 115, 109>>   \* "Mimetism"
sVisor == <<86, 105, 115, 111, 114>>   \* "Visor"
sPanO == <<80, 97, 110, 79>>   \* "PanO"
sAleph == <<65, 108, 101, 112, 104>>   \* "Aleph"
sNomads == <<78, 111, 109, 97, 100, 115>>   \* "Nomads"
sFusilier == <<70, 117, 115, 105, 108, 105, 101, 114>>   \* "Fusilier"
sOrc == <<79, 114, 99>>   \* "Orc"
sNisse == <<78, 105, 115, 115, 101>>   \* "Nisse"

\* weapon 1 in a profile, weapon 2 and equipment 1 in an option
uFusilier ==
    [id |-> 1, isc |-> "FUSILIER", name |-> sFusilier, factions |-> <<3, 5>>,
     profileGroups |->
        <<[profiles |-> <<[weapons |-> <<[id |-> 1]>>,
                           skills |-> <<[id |-> 1]>>]>>,
           options |-> <<[weapons |-> <<[id |-> 2], [id |-> 1]>>,
                          equip |-> <<[id |-> 1]>>]>>]>>]

\* no 'profileGroups' key at all
uOrc ==
    [id |-> 2, isc |-> "ORC", name |-> sOrc, factions |-> <<3>>]

\* shares its ISC code with uFusilier; only options, no 'profiles' key
uFusilierB ==
    [id |-> 3, isc |-> "FUSILIER", name |-> sFusilier, factions |-> <<7>>,
     profileGroups |->
        <<[options |-> <<[weapons |-> <<[id |-> 1]>>, move |-> 4]>>]>>]

\* no 'factions' key; a profile without any reference list, a second group
uNisse ==
    [id |-> 4, isc |-> "NISSE", name |-> sNisse,
     profileGroups |->
        <<[profiles |-> <<[move |-> 4]>>],
          [profiles |-> <<[weapons |-> <<[id |-> 2]>>]>>,
           options |-> <<[skills |-> <<[id |-> 1], [id |-> 2]>>]>>]>>]

UnitCatalog == <<uFusilier, uOrc, uFusilierB, uNisse>>

\* the elements of list whose index is in idx, in list order
RECURSIVE Pick(_, _)
Pick(list, idx) ==
    IF idx = {} THEN <<>>
    ELSE LET i == CHOOSE j \in idx : \A k \in idx : j <= k
         IN  <<list[i]>> \o Pick(list, idx \ {i})

\* the sub-lists of list with at most n elements
SubLists(list, n) ==
    {Pick(list, idx) : idx \in {I \in SUBSET (1..Len(list)) : Cardinality(I) <= n}}

\* metadata.json with the four tables; weapon 1 is listed twice (the later
\* name wins in the dict), weapons 2 and 3 carry the same name
MetaFull ==
    [kind |-> "object",
     data |-> [factions |-> <<[id |-> 3, name |-> sPanO],
                              [id |-> 7, name |-> sAleph],
                              [id |-> 8, name |-> sNomads]>>,
               weapons |-> <<[id |-> 1, name |-> sRifle],
                             [id |-> 2, name |-> sRifle],
                             [id |-> 1, name |-> sCombiRifle],
                             [id |-> 3, name |-> sRifle]>>,
               skills |-> <<[id |-> 1, name |-> sMimetism]>>,
               equips |-> <<[id |-> 1, name |-> sVisor]>>]]

\* metadata.json without 'skills' and 'equips', and with a stray 'units' key
MetaPartial ==
    [kind |-> "object",
     data |-> [factions |-> <<[id |-> 7, name |-> sPanO],
                              [id |-> 3, name |-> sAleph]>>,
               weapons |-> <<[id |-> 1, name |-> sCombiRifle]>>,
               units |-> <<uOrc>>]]

MetaMissing == [kind |-> "missing", data |-> [error |-> "ENOENT"]]
MetaMalformed == [kind |-> "malformed", data |-> [error |-> "JSONDecodeError"]]

MetaChoices == {MetaFull, MetaPartial, MetaMissing, MetaMalformed}

\* what a data file can be: unreadable, not JSON, a falsy JSON value, a
\* non-empty array, a non-zero number, an object without 'units', or an
\* object with a 'units' list
BadContents ==
    {[kind |-> "unreadable", data |-> [error |-> "EACCES"]],
     [kind |-> "malformed", data |-> [error |-> "JSONDecodeError"]],
     [kind |-> "null", data |-> [error |-> "none"]],
     [kind |-> "array", data |-> [items |-> 1]],
     [kind |-> "number", data |-> [value |-> 5]],
     [kind |-> "object", data |-> [version |-> 1]]}

UnitsContent(us) == [kind |-> "object", data |-> [units |-> us]]

FileContents ==
    BadContents \cup {UnitsContent(us) : us \in SubLists(UnitCatalog, MaxUnits)}

MetadataName == "metadata.json"

\* file names in sorted order
SortedNames == <<"a.json", "b.json", MetadataName>>

\* the data files of the directory
DataFiles == {"a.json", "b.json"}

Content(f) == IF f = MetadataName THEN meta ELSE files[f]

\* glob.glob(os.path.join(data_dir, "*.json")): every file that exists
Glob == DOMAIN files \cup (IF meta.kind = "missing" THEN {} ELSE {MetadataName})

---------------------------------------------------------------------------
(* Database: load_json, load_metadata, load_units *)

\* load_json returns None when open() or json.load() raises
LoadJsonNone(c) == c.kind \in {"missing", "unreadable", "malformed"}

\* `not data` for the value returned by load_json
NotData(c) == LoadJsonNone(c) \/ c.kind = "null"

\* `'units' not in data` raises TypeError when data is a number
InRaises(c) == c.kind = "number"

\* `'units' in data` for a truthy array or object
HasUnitsKey(c) == c.kind = "object" /\ "units" \in DOMAIN c.data

\* `for x in data.get(key, []): table[x['id']] = x['name']`
RECURSIVE FillTable(_, _)
FillTable(table, entries) ==
    IF entries = <<>> THEN table
    ELSE FillTable(DictSet(table, Head(entries).id, Head(entries).name),
                   Tail(entries))

LoadTable(c, key) ==
    IF NotData(c) THEN <<>> ELSE FillTable(<<>>, Get(c.data, key, <<>>))

\* `for u_data in data['units']: ... self.units.append(unit)`
RECURSIVE AppendUnits(_, _)
AppendUnits(us, u_datas) ==
    IF u_datas = <<>> THEN us
    ELSE AppendUnits(Append(us, MakeUnit(Head(u_datas))), Tail(u_datas))

\* the two `continue` branches of the loop of load_units
Skipped(f) ==
    f = MetadataName \/ NotData(Content(f)) \/ ~HasUnitsKey(Content(f))

\* the iteration of load_units on file f raises
Raises(f) == f # MetadataName /\ ~NotData(Content(f)) /\ InRaises(Content(f))

\* load_json is called on f by the iteration
Reads(f) == f # MetadataName

\* Database.__init__ up to and including load_metadata; glob of load_units
LoadMetadata ==
    /\ pc = "init"
    /\ reads' = reads \cup {MetadataName}
    /\ factions' = LoadTable(meta, "factions")
    /\ weapons' = LoadTable(meta, "weapons")
    /\ skills' = LoadTable(meta, "skills")
    /\ equipment' = LoadTable(meta, "equips")
    /\ pending' = Glob
    /\ pc' = IF Glob = {} THEN "ready" ELSE "loading"
    /\ UNCHANGED <<meta, files, load_order, units, query, results, searched,
                   recomputed, output, fpc, todo, rows>>

\* one iteration of `for filepath in json_files` in load_units; the order
\* of glob's result is unspecified
LoadUnitsFile(f) ==
    /\ pc = "loading"
    /\ f \in pending
    /\ pending' = pending \ {f}
    /\ load_order' = Append(load_order, f)
    /\ reads' = IF Reads(f) THEN reads \cup {f} ELSE reads
    /\ IF Raises(f)
       THEN /\ pc' = "raised"
            /\ UNCHANGED units
       ELSE /\ pc' = IF pending' = {} THEN "ready" ELSE "loading"
            /\ units' = IF Skipped(f) THEN units
                        ELSE AppendUnits(units, Content(f).data.units)
    /\ UNCHANGED <<meta, files, weapons, skills, equipment, factions, query,
                   results, searched, recomputed, output, fpc, todo, rows>>

---------------------------------------------------------------------------
(* Database: normalize_name, search_id_by_name, search_units *)

None == [some |-> FALSE, s |-> <<>>]
Str(s) == [some |-> TRUE, s |-> s]

\* faulty variant: only None is false, the empty string counts as a query
TruthyNotNone(name) == name.some

\* truth value of an Optional[str] argument: None and "" are false
Truthy(name) == name.some /\ name.s # <<>>

\* faulty variant: the name is trimmed but not lower-cased
StripOnly(name) == Strip(name)

normalize_name(name) == Strip(Lower(name))

search_id_by_name(name, source) ==
    LET q == normalize_name(name)
        matches == SelectSeq(source,
                             LAMBDA item : Contains(q, normalize_name(item[2])))
    IN  [i \in 1..Len(matches) |-> matches[i][1]]

sWeaponPrefix == <<87, 101, 97, 112, 111, 110, 58, 32>>   \* "Weapon: "
sSkillPrefix == <<83, 107, 105, 108, 108, 58, 32>>   \* "Skill: "
sEquipPrefix == <<69, 113, 117, 105, 112, 58, 32>>   \* "Equip: "

\* `for wid in target_weapon_ids: if unit.has_weapon(wid): append(...)`
WeaponReasons(u, ids) ==
    LET hit == SelectSeq(ids, LAMBDA wid : has_weapon(u, wid))
    IN  [i \in 1..Len(hit) |-> sWeaponPrefix \o DictGet(weapons, hit[i])]

SkillReasons(u, ids) ==
    LET hit == SelectSeq(ids, LAMBDA sid : has_skill(u, sid))
    IN  [i \in 1..Len(hit) |-> sSkillPrefix \o DictGet(skills, hit[i])]

EquipReasons(u, ids) ==
    LET hit == SelectSeq(ids, LAMBDA eid : has_equipment(u, eid))
    IN  [i \in 1..Len(hit) |-> sEquipPrefix \o DictGet(equipment, hit[i])]

\* faulty variant: every matching unit is kept, whatever its ISC code
KeepAll(u, match_reasons, seen) == match_reasons # <<>>

\* faulty variant: a unit is kept only while no unit at all has been kept
KeepFirstOnly(u, match_reasons, seen) == match_reasons # <<>> /\ seen = {}

\* `if match_reasons: ... if key not in seen_unit_id_isc`
Keep(u, match_reasons, seen) == match_reasons # <<>> /\ u.isc \notin seen

\* the loop `for unit in self.units` of search_units
RECURSIVE ScanUnits(_, _, _, _, _, _)
ScanUnits(us, tw, ts, te, res, seen) ==
    IF us = <<>> THEN res
    ELSE LET unit == Head(us)
             match_reasons == WeaponReasons(unit, tw) \o SkillReasons(unit, ts)
                                \o EquipReasons(unit, te)
         IN  IF Keep(unit, match_reasons, seen)
             THEN ScanUnits(Tail(us), tw, ts, te,
                            Append(res, <<unit, match_reasons>>),
                            seen \cup {unit.isc})
             ELSE ScanUnits(Tail(us), tw, ts, te, res, seen)

\* `if not (target_weapon_ids or target_skill_ids or target_equip_ids)`
NothingToSearch(tw, ts, te) == tw = <<>> /\ ts = <<>> /\ te = <<>>

\* Database.search_units on the unit list us
search_units(us, q) ==
    LET tw == IF Truthy(q.weapon)
              THEN search_id_by_name(q.weapon.s, weapons) ELSE <<>>
        ts == IF Truthy(q.skill)
              THEN search_id_by_name(q.skill.s, skills) ELSE <<>>
        te == IF Truthy(q.equip)
              THEN search_id_by_name(q.equip.s, equipment) ELSE <<>>
    IN  IF NothingToSearch(tw, ts, te) THEN <<>>
        ELSE ScanUnits(us, tw, ts, te, <<>>, {})

get_faction_name(fid) ==
    IF fid \in DictKeys(factions) THEN DictGet(factions, fid)
    ELSE <<85, 110, 107, 110, 111, 119, 110, 32, 40>> \o IntStr(fid) \o <<41>>   \* "Unknown (" ")"

Q(w, s, e) == [weapon |-> w, skill |-> s, equip |-> e]

\* the queries tried: absent, empty, blank, matching and unmatched names
Queries ==
    {Q(None, Str(<<>>), None),
     Q(Str(<<122, 122>>), Str(<<>>), None),                      \* "zz"
     Q(Str(<<99, 111, 109, 98, 105>>), None, None),              \* "combi"
     Q(Str(<<32, 82, 73, 70, 76, 69, 32>>), Str(<<>>), None),    \* " RIFLE "
     Q(Str(<<99, 111, 109, 98, 105>>), Str(<<32>>), None),       \* "combi", " "
     Q(Str(<<122, 122>>), None, Str(<<86, 73, 83>>)),            \* "zz", "VIS"
     Q(Str(<<32, 82, 73, 70, 76, 69, 32>>), Str(<<32>>), Str(<<86, 73, 83>>)),
     Q(None, Str(<<109, 105, 109>>), None)}                      \* "mim"

NoQuery == Q(None, None, None)

\* a call db.search_units(weapon_name=q.weapon, skill_name=q.skill,
\* equip_name=q.equip)
SearchUnits(q) ==
    /\ pc = "ready"
    /\ query' = q
    /\ results' = search_units(units, query')
    /\ searched' = TRUE
    /\ UNCHANGED <<meta, files, pc, pending, load_order, reads, weapons,
                   skills, equipment, factions, units, recomputed, output,
                   fpc, todo, rows>>

\* a call self.units[i].compute_access()
RecomputeAccess(i) ==
    /\ pc = "ready"
    /\ i \in 1..Len(units)
    /\ recomputed < MaxRecompute
    /\ units' = [units EXCEPT ![i] = ComputeAccess(units[i])]
    /\ recomputed' = recomputed + 1
    /\ UNCHANGED <<meta, files, pc, pending, load_order, reads, weapons,
                   skills, equipment, factions, query, results, searched,
                   output, fpc, todo, rows>>

---------------------------------------------------------------------------
(* main of the query tool: the report printed after the search *)

\* sorted(seq, key=lambda x: x.key) on strings: a stable insertion sort
RECURSIVE InsertByKey(_, _)
InsertByKey(sorted, x) ==
    IF sorted = <<>> THEN <<x>>
    ELSE IF StrLess(x.key, Head(sorted).key) THEN <<x>> \o sorted
    ELSE <<Head(sorted)>> \o InsertByKey(Tail(sorted), x)

RECURSIVE SortByKeyFrom(_, _)
SortByKeyFrom(sorted, rest) ==
    IF rest = <<>> THEN sorted
    ELSE SortByKeyFrom(InsertByKey(sorted, Head(rest)), Tail(rest))

SortByKey(seq) == SortByKeyFrom(<<>>, seq)

\* sorted(list(S)) for a set S of strings
RECURSIVE SortedStrings(_)
SortedStrings(S) ==
    IF S = {} THEN <<>>
    ELSE LET m == CHOOSE x \in S : \A y \in S \ {x} : StrLess(x, y)
         IN  <<m>> \o SortedStrings(S \ {m})

\* list(S) for a set S of small integers
RECURSIVE ListOfInts(_)
ListOfInts(S) ==
    IF S = {} THEN <<>>
    ELSE LET m == CHOOSE x \in S : \A y \in S : x <= y
         IN  <<m>> \o ListOfInts(S \ {m})

\* faulty variant: a unit is filed under the first faction of its list only
AddToFactionsFirstOnly(faction_access, entry, fids) ==
    IF fids = <<>> THEN faction_access
    ELSE DictSet(faction_access, Head(fids),
                 IF Head(fids) \in DictKeys(faction_access)
                 THEN Append(DictGet(faction_access, Head(fids)), entry)
                 ELSE <<entry>>)

\* `for fid in unit.factions: faction_access[fid].append((unit, reasons))`
RECURSIVE AddToFactions(_, _, _)
AddToFactions(faction_access, entry, fids) ==
    IF fids = <<>> THEN faction_access
    ELSE AddToFactions(
            DictSet(faction_access, Head(fids),
                    IF Head(fids) \in DictKeys(faction_access)
                    THEN Append(DictGet(faction_access, Head(fids)), entry)
                    ELSE <<entry>>),
            entry, Tail(fids))

\* `for unit, reasons in results`
RECURSIVE GroupByFaction(_, _)
GroupByFaction(faction_access, res) ==
    IF res = <<>> THEN faction_access
    ELSE GroupByFaction(
            AddToFactions(faction_access, Head(res), Head(res)[1].factions),
            Tail(res))

\* the FACTIONS WITH ACCESS listing: one group per faction, sorted by name
WithAccess(faction_access) ==
    LET keyed == [i \in 1..Len(faction_access) |->
                    [key |-> get_faction_name(faction_access[i][1]),
                     fid |-> faction_access[i][1],
                     units_list |-> faction_access[i][2]]]
        sorted == SortByKey(keyed)
    IN  [i \in 1..Len(sorted) |->
            [fid |-> sorted[i].fid,
             fname |-> sorted[i].key,
             unit_names |-> SortedStrings({e[1].name :
                                            e \in Range(sorted[i].units_list)})]]

\* missing_fids = all_fids - access_fids
MissingFids(faction_access) == DictKeys(factions) \ DictKeys(faction_access)

\* the FACTIONS WITHOUT ACCESS listing, sorted by name
WithoutAccess(faction_access) ==
    LET lst == ListOfInts(MissingFids(faction_access))
        keyed == [i \in 1..Len(lst) |->
                    [key |-> get_faction_name(lst[i]), fid |-> lst[i]]]
        sorted == SortByKey(keyed)
    IN  [i \in 1..Len(sorted) |-> [fid |-> sorted[i].fid, fname |-> sorted[i].key]]

\* ", ".join(strs)
RECURSIVE Join(_)
Join(strs) ==
    IF strs = <<>> THEN <<>>
    ELSE IF Len(strs) = 1 THEN Head(strs)
    ELSE Head(strs) \o <<44, 32>> \o Join(Tail(strs))   \* ", "

\* the rows of the flat table: results sorted by unit name
FlatRows(res) ==
    LET keyed == [i \in 1..Len(res) |->
                    [key |-> res[i][1].name, unit |-> res[i][1],
                     reasons |-> res[i][2]]]
        sorted == SortByKey(keyed)
        Display(u) ==
            IF u.factions = <<>> THEN <<>>
            ELSE IF Len(u.factions) > 1
            THEN get_faction_name(u.factions[1]) \o <<32, 40, 43>>   \* " (+"
                    \o IntStr(Len(u.factions) - 1) \o <<41>>   \* ")"
            ELSE get_faction_name(u.factions[1])
    IN  [i \in 1..Len(sorted) |->
            [name |-> sorted[i].key,
             display_faction |-> Display(sorted[i].unit),
             joined_reasons |-> Join(sorted[i].reasons)]]

NoOutput == [mode |-> "none", with |-> <<>>, without |-> <<>>, table |-> <<>>]

\* main after `results = db.search_units(...)`, up to its return
MainReport(flag) ==
    /\ pc = "ready"
    /\ searched
    /\ pc' = "exit"
    /\ output' =
         IF results = <<>>
         THEN [NoOutput EXCEPT !.mode = "no_units"]
         ELSE IF flag
         THEN LET faction_access == GroupByFaction(<<>>, results)
              IN  [mode |-> "by_faction",
                   with |-> WithAccess(faction_access),
                   without |-> WithoutAccess(faction_access),
                   table |-> <<>>]
         ELSE [mode |-> "flat", with |-> <<>>, without |-> <<>>,
               table |-> FlatRows(results)]
    /\ UNCHANGED <<meta, files, pending, load_order, reads, weapons,
                   skills, equipment, factions, units, query, results,
                   searched, recomputed, fpc, todo, rows>>

---------------------------------------------------------------------------
(* The query tool *)

Init ==
    /\ meta \in MetaChoices
    /\ files \in [DataFiles -> FileContents]
    /\ pc = "init"
    /\ pending = {}
    /\ load_order = <<>>
    /\ reads = {}
    /\ weapons = <<>>
    /\ skills = <<>>
    /\ equipment = <<>>
    /\ factions = <<>>
    /\ units = <<>>
    /\ query = NoQuery
    /\ results = <<>>
    /\ searched = FALSE
    /\ recomputed = 0
    /\ output = NoOutput
    /\ fpc = "off"
    /\ todo = <<>>
    /\ rows = <<>>

Next ==
    \/ LoadMetadata
    \/ \E f \in DataFiles \cup {MetadataName} : LoadUnitsFile(f)
    \/ \E q \in Queries : SearchUnits(q)
    \/ \E i \in 1..(2 * MaxUnits) : RecomputeAccess(i)
    \/ \E flag \in BOOLEAN : MainReport(flag)

Spec == Init /\ [][Next]_vars

---------------------------------------------------------------------------
(* The faction identifier: main of identify_factions.py *)

\* the `pct > 50` threshold of the candidate filter
Threshold == 50

\* unit records as the faction identifier sees them
fNoFactions == [id |-> 1, isc |-> "A"]
fBoth == [id |-> 2, isc |-> "B", factions |-> <<8, 7>>]
fSeven == [id |-> 3, isc |-> "C", factions |-> <<7>>]
fEight == [id |-> 4, isc |-> "D", factions |-> <<8>>]

FUnitCatalog == <<fNoFactions, fBoth, fSeven, fEight>>

\* unit lists of at most n units, each list in catalog order
FUnitLists(n) ==
    UNION {{[i \in 1..k |-> FUnitCatalog[c[i]]] :
                c \in {d \in [1..k -> 1..Len(FUnitCatalog)] :
                          \A i, j \in 1..k : i < j => d[i] <= d[j]}} :
           k \in 0..n}

FFileContents ==
    BadContents \cup {UnitsContent(us) : us \in FUnitLists(FMaxUnits)}

\* `for fid in unit.get('factions', []): counts[fid] = counts.get(fid, 0) + 1`
RECURSIVE CountFids(_, _)
CountFids(counts, fids) ==
    IF fids = <<>> THEN counts
    ELSE CountFids(
            DictSet(counts, Head(fids),
                    (IF Head(fids) \in DictKeys(counts)
                     THEN DictGet(counts, Head(fids)) ELSE 0) + 1),
            Tail(fids))

\* `for unit in units`
RECURSIVE CountUnits(_, _)
CountUnits(counts, us) ==
    IF us = <<>> THEN counts
    ELSE CountUnits(CountFids(counts, Get(Head(us), "factions", <<>>)), Tail(us))

\* faulty variant: the sort is ascending
RECURSIVE InsertByCountAsc(_, _)
InsertByCountAsc(sorted, x) ==
    IF sorted = <<>> THEN <<x>>
    ELSE IF x[2] < Head(sorted)[2] THEN <<x>> \o sorted
    ELSE <<Head(sorted)>> \o InsertByCountAsc(Tail(sorted), x)

\* sorted(items, key=count, reverse=True): stable, descending
RECURSIVE InsertByCount(_, _)
InsertByCount(sorted, x) ==
    IF sorted = <<>> THEN <<x>>
    ELSE IF x[2] > Head(sorted)[2] THEN <<x>> \o sorted
    ELSE <<Head(sorted)>> \o InsertByCount(Tail(sorted), x)

RECURSIVE SortByCountFrom(_, _)
SortByCountFrom(sorted, rest) ==
    IF rest = <<>> THEN sorted
    ELSE SortByCountFrom(InsertByCount(sorted, Head(rest)), Tail(rest))

SortByCountDesc(counts) == SortByCountFrom(<<>>, counts)

\* faulty variant: a faction at the threshold is a candidate too
IsCandidateAtLeast(count, total_units) == count * 100 >= Threshold * total_units

\* `pct = (count / total_units) * 100; if pct > 50`
IsCandidate(count, total_units) == count * 100 > Threshold * total_units

\* f"{pct:.0f}": the percentage rounded to an integer, halves to even
PctShown(count, total_units) ==
    LET q == (count * 100) \div total_units
        r == (count * 100) % total_units
    IN  IF 2 * r > total_units \/ (2 * r = total_units /\ q % 2 = 1)
        THEN q + 1 ELSE q

sNone == <<78, 111, 110, 101>>                          \* "None"
sUnknown == <<85, 110, 107, 110, 111, 119, 110>>        \* "Unknown"

\* factions_map.get(fid, default)
FactionsMapGet(fid, default) ==
    IF fid \in DictKeys(factions) THEN DictGet(factions, fid) ELSE default

NoTop == [name |-> <<>>, count |-> 0, total |-> 0]

\* the row printed for data file f whose 'units' list is us
RowOf(f, us) ==
    LET total_units == Len(us)
        sorted_factions == SortByCountDesc(CountUnits(<<>>, us))
        candidates == SelectSeq(sorted_factions,
                                LAMBDA item : IsCandidate(item[2], total_units))
    IN  IF us = <<>>
        THEN [file |-> f, col |-> "EMPTY", fid |-> 0,
              note |-> "Unit list is empty", top |-> NoTop, cands |-> <<>>]
        ELSE IF sorted_factions = <<>>
        THEN [file |-> f, col |-> "EMPTY", fid |-> 0,
              note |-> "No faction data found", top |-> NoTop, cands |-> <<>>]
        ELSE IF candidates = <<>>
        THEN [file |-> f, col |-> "MIXED", fid |-> 0, note |-> "Top",
              top |-> [name |-> FactionsMapGet(sorted_factions[1][1], sNone),
                       count |-> sorted_factions[1][2],
                       total |-> total_units],
              cands |-> <<>>]
        ELSE [file |-> f, col |-> "ID", fid |-> candidates[1][1],
              note |-> "Candidates", top |-> NoTop,
              cands |-> [i \in 1..Len(candidates) |->
                            [fid |-> candidates[i][1],
                             name |-> FactionsMapGet(candidates[i][1], sUnknown),
                             pct |-> PctShown(candidates[i][2], total_units)]]]

\* main up to the loop: the metadata is loaded, the directory listed and sorted
FLoadMetadata ==
    /\ fpc = "init"
    /\ reads' = reads \cup {MetadataName}
    /\ IF NotData(meta)
       THEN /\ fpc' = "failed"
            /\ UNCHANGED <<factions, todo>>
       ELSE /\ factions' = FillTable(<<>>, Get(meta.data, "factions", <<>>))
            /\ todo' = SelectSeq(SortedNames, LAMBDA f : f \in Glob)
            /\ fpc' = IF todo' = <<>> THEN "done" ELSE "files"
    /\ UNCHANGED <<meta, files, pc, pending, load_order, weapons, skills,
                   equipment, units, query, results, searched, recomputed,
                   output, rows>>

\* one iteration of `for filepath in sorted(json_files)`
FAnalyseFile ==
    /\ fpc = "files"
    /\ todo # <<>>
    /\ LET f == Head(todo)
       IN  /\ todo' = Tail(todo)
           /\ reads' = IF Reads(f) THEN reads \cup {f} ELSE reads
           /\ IF Raises(f)
              THEN /\ fpc' = "raised"
                   /\ UNCHANGED rows
              ELSE /\ fpc' = IF todo' = <<>> THEN "done" ELSE "files"
                   /\ rows' = IF Skipped(f) THEN rows
                              ELSE Append(rows, RowOf(f, Content(f).data.units))
    /\ UNCHANGED <<meta, files, pc, pending, load_order, weapons, skills,
                   equipment, factions, units, query, results, searched,
                   recomputed, output>>

InitF ==
    /\ meta \in MetaChoices
    /\ files \in [DataFiles -> FFileContents]
    /\ pc = "off"
    /\ pending = {}
    /\ load_order = <<>>
    /\ reads = {}
    /\ weapons = <<>>
    /\ skills = <<>>
    /\ equipment = <<>>
    /\ factions = <<>>
    /\ units = <<>>
    /\ query = NoQuery
    /\ results = <<>>
    /\ searched = FALSE
    /\ recomputed = 0
    /\ output = NoOutput
    /\ fpc = "init"
    /\ todo = <<>>
    /\ rows = <<>>

NextF == FLoadMetadata \/ FAnalyseFile

SpecF == InitF /\ [][NextF]_vars

---------------------------------------------------------------------------
(* Properties of the query tool *)

\* every profile and every option of every profile group of u
EntriesOf(u) ==
    UNION {Range(Get(pg, "profiles", <<>>)) \cup Range(Get(pg, "options", <<>>)) :
           pg \in Range(u.profile_groups)}

\* the 'id' values of the reference lists `key` of the entries of u
RefIds(u, key) ==
    UNION {{r.id : r \in Range(Get(x, key, <<>>))} : x \in EntriesOf(u)}

\* the load has finished and the database is in use
Loaded == pc \in {"ready", "exit"}

\* C1: every loaded unit's all_weapon_ids, all_skill_ids and
\* all_equipment_ids are exactly the unions of the 'id' values of the
\* 'weapons', 'skills' and 'equip' lists of all its profiles and options
\* (empty for absent lists and for a unit without profile groups), before
\* and after any recomputation or search, and recomputing changes nothing.
C1_AccessSetsAreUnions ==
    \A i \in 1..Len(units) :
        /\ units[i].all_weapon_ids = RefIds(units[i], "weapons")
        /\ units[i].all_skill_ids = RefIds(units[i], "skills")
        /\ units[i].all_equipment_ids = RefIds(units[i], "equip")
        /\ ComputeAccess(units[i]) = units[i]

\* a unit without profile groups and a unit with equipment found in an
\* option are loaded, a recomputation and a search have been made
C1_Witness ==
    /\ Loaded /\ searched /\ recomputed > 0
    /\ \E i \in 1..Len(units) :
          units[i].profile_groups = <<>> /\ units[i].all_weapon_ids = {}
    /\ \E j \in 1..Len(units) :
          /\ units[j].all_equipment_ids # {}
          /\ \A pg \in Range(units[j].profile_groups) :
                \A x \in Range(Get(pg, "profiles", <<>>)) :
                    Get(x, "equip", <<>>) = <<>>

\* a query is given when it is neither absent nor empty
Given(name) == name.some /\ Len(name.s) > 0

\* the IDs of table whose lower-cased, trimmed name contains the
\* lower-cased, trimmed query
ResolvedIds(name, table) ==
    IF Given(name)
    THEN {id \in DictKeys(table) :
             Contains(Strip(Lower(name.s)), Strip(Lower(DictGet(table, id))))}
    ELSE {}

\* the (category, ID) pairs by which unit u matches the last query
MatchesOf(u) ==
    {<<"Weapon", id>> : id \in ResolvedIds(query.weapon, weapons) \cap u.all_weapon_ids}
    \cup {<<"Skill", id>> : id \in ResolvedIds(query.skill, skills) \cap u.all_skill_ids}
    \cup {<<"Equip", id>> : id \in ResolvedIds(query.equip, equipment) \cap u.all_equipment_ids}

\* the reason string of a match
ReasonOf(m) ==
    IF m[1] = "Weapon" THEN sWeaponPrefix \o DictGet(weapons, m[2])
    ELSE IF m[1] = "Skill" THEN sSkillPrefix \o DictGet(skills, m[2])
    ELSE sEquipPrefix \o DictGet(equipment, m[2])

\* the list reasons holds exactly one entry per match of u and nothing else
ReasonsExact(u, reasons) ==
    /\ Len(reasons) = Cardinality(MatchesOf(u))
    /\ \A t \in Range(reasons) \cup {ReasonOf(m) : m \in MatchesOf(u)} :
          Cardinality({j \in 1..Len(reasons) : reasons[j] = t})
            = Cardinality({m \in MatchesOf(u) : ReasonOf(m) = t})

DistinctIscs ==
    \A i, j \in 1..Len(units) : i # j => units[i].isc # units[j].isc

\* C2: when the ISC codes of the loaded units are pairwise distinct, a
\* unit is returned by search_units iff some ID resolved from a given query
\* is in its cached set of the same category, and its reasons are exactly
\* one "Weapon: <name>", "Skill: <name>" or "Equip: <name>" per such ID.
C2_SearchReturnsExactlyMatches ==
    (Loaded /\ searched /\ DistinctIscs) =>
        /\ \A i \in 1..Len(units) :
              (\E k \in 1..Len(results) : results[k][1] = units[i])
                 <=> MatchesOf(units[i]) # {}
        /\ \A k \in 1..Len(results) :
              /\ results[k][1] \in Range(units)
              /\ ReasonsExact(results[k][1], results[k][2])

\* the query "combi" returned the one unit holding weapon 1, with the
\* single reason "Weapon: Combi Rifle", and not the other loaded unit
C2_Witness ==
    /\ Loaded /\ searched /\ DistinctIscs
    /\ query = Q(Str(<<99, 111, 109, 98, 105>>), None, None)
    /\ Len(units) = 2
    /\ Len(results) = 1
    /\ 1 \in results[1][1].all_weapon_ids
    /\ results[1][2] = <<sWeaponPrefix \o sCombiRifle>>

\* the index of the first unit that matches and carries the ISC code isc
FirstMatching(isc) ==
    CHOOSE i \in 1..Len(units) :
        /\ units[i].isc = isc /\ MatchesOf(units[i]) # {}
        /\ \A j \in 1..(i - 1) :
              ~(units[j].isc = isc /\ MatchesOf(units[j]) # {})

\* C3: the result of search_units holds no two entries with the same ISC
\* code; for each ISC code of a matching unit the entry kept is the first
\* matching unit in load order with its own reasons, later ones are dropped.
C3_DedupFirstWins ==
    (Loaded /\ searched) =>
        /\ \A k, l \in 1..Len(results) :
              k # l => results[k][1].isc # results[l][1].isc
        /\ \A i \in 1..Len(units) :
              MatchesOf(units[i]) # {} =>
                 \E k \in 1..Len(results) :
                    /\ results[k][1] = units[FirstMatching(units[i].isc)]
                    /\ ReasonsExact(results[k][1], results[k][2])
        /\ \A k \in 1..Len(results) :
              \E i \in 1..Len(units) :
                 /\ MatchesOf(units[i]) # {}
                 /\ results[k][1] = units[FirstMatching(units[i].isc)]

\* two different matching units share an ISC code; the earlier one is in
\* the result and the later one is not
C3_Witness ==
    /\ Loaded /\ searched
    /\ \E i, j \in 1..Len(units) :
          /\ i < j
          /\ units[i].isc = units[j].isc
          /\ units[i] # units[j]
          /\ MatchesOf(units[i]) # {} /\ MatchesOf(units[j]) # {}
          /\ \E k \in 1..Len(results) : results[k][1] = units[i]
          /\ \A k \in 1..Len(results) : results[k][1] # units[j]

\* the string t starts with prefix
StartsWith(t, prefix) ==
    Len(t) >= Len(prefix) /\ SubSeq(t, 1, Len(prefix)) = prefix

\* no name of table contains the normalised query
MatchesNoName(name, table) ==
    \A i \in 1..Len(table) :
        ~Contains(Strip(Lower(name.s)), Strip(Lower(table[i][2])))

\* no entry of the result has a reason with this prefix
NoReasonWith(prefix) ==
    \A k \in 1..Len(results) :
        \A t \in Range(results[k][2]) : ~StartsWith(t, prefix)

\* C4: search_units returns the empty list, without raising, when all three
\* queries are absent or empty; a given query that matches no name adds no
\* reason of its category, and the result is empty when no category
\* resolves an ID.
C4_NothingToSearch ==
    (Loaded /\ searched) =>
        /\ pc # "raised"
        /\ (~Given(query.weapon) /\ ~Given(query.skill) /\ ~Given(query.equip))
              => results = <<>>
        /\ (~Given(query.weapon) \/ MatchesNoName(query.weapon, weapons))
              => NoReasonWith(sWeaponPrefix)
        /\ (~Given(query.skill) \/ MatchesNoName(query.skill, skills))
              => NoReasonWith(sSkillPrefix)
        /\ (~Given(query.equip) \/ MatchesNoName(query.equip, equipment))
              => NoReasonWith(sEquipPrefix)
        /\ (/\ ResolvedIds(query.weapon, weapons) = {}
            /\ ResolvedIds(query.skill, skills) = {}
            /\ ResolvedIds(query.equip, equipment) = {})
              => results = <<>>

\* the weapon query "zz" matches no weapon name although weapons are
\* known, while the equipment query of the same call finds units
C4_Witness ==
    /\ Loaded /\ searched
    /\ weapons # <<>>
    /\ Given(query.weapon) /\ MatchesNoName(query.weapon, weapons)
    /\ results # <<>>

\* the metadata file is missing or cannot be loaded
MetadataUnavailable == meta.kind \in {"missing", "malformed"}

\* C5: when the metadata file is missing or cannot be loaded the run aborts
\* before any data file is read: no unit is loaded, no query and no faction
\* analysis is executed, in the query tool and in the faction identifier.
C5_MissingMetadataIsFatal ==
    MetadataUnavailable =>
        /\ reads \subseteq {MetadataName}
        /\ units = <<>>
        /\ ~searched
        /\ rows = <<>>

\* the units file f contributes when it is a well-formed data file
UnitsFrom(f) ==
    IF f # MetadataName /\ files[f].kind = "object"
          /\ "units" \in DOMAIN files[f].data
    THEN [i \in 1..Len(files[f].data.units) |-> MakeUnit(files[f].data.units[i])]
    ELSE <<>>

\* the units of the files of order, file after file
RECURSIVE UnitsInOrder(_)
UnitsInOrder(order) ==
    IF order = <<>> THEN <<>>
    ELSE UnitsFrom(Head(order)) \o UnitsInOrder(Tail(order))

\* C6: a data file that is unreadable, malformed or without a 'units' list
\* never aborts the load: load_units terminates and Database.units holds
\* exactly the units of the well-formed data files, none from metadata.json.
C6_BadFilesAreSkipped ==
    /\ pc # "raised"
    /\ Loaded => units = UnitsInOrder(load_order)

\* the faction IDs with a WITH ACCESS group, and those listed WITHOUT ACCESS
WithFids == {g.fid : g \in Range(output.with)}
WithoutFids == {g.fid : g \in Range(output.without)}

\* C9: in --by-faction mode a matched unit is listed under WITH ACCESS of
\* every faction of its factions list, no faction ID is in both listings,
\* and WITHOUT ACCESS is exactly the metadata factions without matched unit.
C9_ByFactionGrouping ==
    output.mode = "by_faction" =>
        /\ \A k \in 1..Len(results) :
              \A fid \in Range(results[k][1].factions) :
                 \E g \in Range(output.with) :
                    g.fid = fid /\ results[k][1].name \in Range(g.unit_names)
        /\ WithFids \cap WithoutFids = {}
        /\ WithoutFids =
              DictKeys(factions) \
                 UNION {Range(results[k][1].factions) : k \in 1..Len(results)}

\* a matched unit of factions 3 and 5 is listed under both, and some
\* metadata faction is listed without access
C9_Witness ==
    /\ output.mode = "by_faction"
    /\ \E k \in 1..Len(results) : results[k][1].factions = <<3, 5>>
    /\ {3, 5} \subseteq WithFids
    /\ {3, 5} \cap WithoutFids = {}
    /\ WithoutFids # {}

\* the data files in sorted order, and the units a load in that order gives
SortedDataFiles == SelectSeq(SortedNames, LAMBDA f : f \in DataFiles)
CanonicalUnits == UnitsInOrder(SortedDataFiles)

\* the number of loaded units that differ from u but carry its ISC code
Rivals(u) == {i \in 1..Len(units) : units[i].isc = u.isc /\ units[i] # u}

\* C10 as stated: whatever the order in which the files were loaded, the
\* search returns the same set of units with the same reasons as a load in
\* sorted file order.
C10_OrderIndependent ==
    (Loaded /\ searched) =>
        Range(results) = Range(search_units(CanonicalUnits, query))

\* C10 amended: whatever the order in which the files were loaded, the
\* search returns the same set of ISC codes as a load in sorted file order,
\* and for every ISC code carried by no two different loaded units the
\* same unit data and the same reasons.
C10_OrderIndependentIscs ==
    (Loaded /\ searched) =>
        LET canonical == search_units(CanonicalUnits, query)
        IN  /\ {e[1].isc : e \in Range(results)}
                  = {e[1].isc : e \in Range(canonical)}
            /\ \A e \in Range(results) :
                  Rivals(e[1]) = {} => e \in Range(canonical)
            /\ \A e \in Range(canonical) :
                  Rivals(e[1]) = {} => e \in Range(results)

\* the files were loaded in reverse order, which gave another unit list,
\* and the search found two units
C10_Witness ==
    /\ Loaded /\ searched
    /\ load_order # <<>> /\ Head(load_order) # Head(SortedNames)
    /\ units # CanonicalUnits
    /\ Len(results) >= 2

---------------------------------------------------------------------------
(* Properties of the faction identifier *)

\* the factions list of a unit record, empty when the key is missing
FactionsOf(u_data) == Get(u_data, "factions", <<>>)

\* the faction IDs occurring in the unit list us
FidsIn(us) == UNION {Range(FactionsOf(us[i])) : i \in 1..Len(us)}

\* the number of occurrences of fid in the factions lists of us
Occurrences(us, fid) ==
    Cardinality({p \in UNION {{<<i, j>> : j \in 1..Len(FactionsOf(us[i]))} :
                              i \in 1..Len(us)} :
                    FactionsOf(us[p[1]])[p[2]] = fid})

\* the faction IDs whose occurrence count exceeds 50% of the unit count
OverHalf(us) == {fid \in FidsIn(us) : 2 * Occurrences(us, fid) > Len(us)}

\* the highest occurrence count of a faction in us
MaxOccurrences(us) ==
    CHOOSE c \in 0..(2 * Len(us)) :
        /\ \A fid \in FidsIn(us) : Occurrences(us, fid) <= c
        /\ FidsIn(us) # {} => \E fid \in FidsIn(us) : Occurrences(us, fid) = c

\* the unit list behind row k
UnitsOfRow(k) == files[rows[k].file].data.units

\* the candidates of row k are the factions over 50%, once each, each with
\* its percentage rounded to an integer
CandidatesExact(k) ==
    LET us == UnitsOfRow(k)
        cands == rows[k].cands
    IN  /\ {cands[i].fid : i \in 1..Len(cands)} = OverHalf(us)
        /\ Len(cands) = Cardinality(OverHalf(us))
        /\ \A i \in 1..Len(cands) :
              LET exact == 100 * Occurrences(us, cands[i].fid)
              IN  /\ 2 * (exact - cands[i].pct * Len(us)) <= Len(us)
                  /\ 2 * (cands[i].pct * Len(us) - exact) <= Len(us)

\* the top faction of row k's file is at exactly 50%
TopAtHalf(k) == 2 * MaxOccurrences(UnitsOfRow(k)) = Len(UnitsOfRow(k))

\* row k lists faction 7 as its only candidate, at 100%
SoleSevenAtHundred(k) ==
    /\ Len(rows[k].cands) = 1
    /\ rows[k].cands[1].fid = 7
    /\ rows[k].cands[1].pct = 100

\* C7 as stated: for a file with N > 0 units the candidates are exactly the
\* factions with 2*c > N, each with its percentage; a top faction at
\* exactly 50% gives MIXED; a file in which every unit belongs to faction 7
\* lists faction 7 as its sole candidate at 100%.
C7_CandidatesOverHalf ==
    \A k \in 1..Len(rows) :
        UnitsOfRow(k) # <<>> =>
            /\ CandidatesExact(k)
            /\ TopAtHalf(k) => rows[k].col = "MIXED"
            /\ (\A i \in 1..Len(UnitsOfRow(k)) :
                    7 \in Range(FactionsOf(UnitsOfRow(k)[i])))
                  => SoleSevenAtHundred(k)

\* C7 amended: as C7, but faction 7 is the sole candidate at 100% of a file
\* in which the factions list of every unit is exactly [7].
C7_CandidatesOverHalfSingleFaction ==
    \A k \in 1..Len(rows) :
        UnitsOfRow(k) # <<>> =>
            /\ CandidatesExact(k)
            /\ TopAtHalf(k) => rows[k].col = "MIXED"
            /\ (\A i \in 1..Len(UnitsOfRow(k)) :
                    FactionsOf(UnitsOfRow(k)[i]) = <<7>>)
                  => SoleSevenAtHundred(k)

\* one file was reported MIXED with its top faction at exactly 50%, and
\* another one with faction 7 as only candidate at 100%
C7_Witness ==
    /\ fpc = "done"
    /\ \E k \in 1..Len(rows) :
          /\ rows[k].col = "MIXED"
          /\ 2 * rows[k].top.count = rows[k].top.total
    /\ \E k \in 1..Len(rows) :
          /\ UnitsOfRow(k) # <<>>
          /\ \A i \in 1..Len(UnitsOfRow(k)) : FactionsOf(UnitsOfRow(k)[i]) = <<7>>
          /\ SoleSevenAtHundred(k)

\* the data file f has a 'units' list and has been analysed
Analysed(f) ==
    /\ f \in reads
    /\ files[f].kind = "object"
    /\ "units" \in DOMAIN files[f].data

\* the row of a MIXED file shows a most frequent faction of us
ShowsMostFrequent(row, us) ==
    /\ row.top.count = MaxOccurrences(us)
    /\ row.top.total = Len(us)
    /\ \E fid \in FidsIn(us) :
          /\ Occurrences(us, fid) = MaxOccurrences(us)
          /\ row.top.name = FactionsMapGet(fid, sNone)

\* C8 as stated: every analysed file has one row; it is EMPTY exactly when
\* the unit list is empty, MIXED with the most frequent faction shown
\* exactly when the list is non-empty and no faction exceeds 50%, and a
\* candidate list otherwise.
C8_ThreeOutcomes ==
    /\ \A k \in 1..Len(rows) : Analysed(rows[k].file)
    /\ \A f \in DataFiles :
          Analysed(f) =>
             /\ Cardinality({k \in 1..Len(rows) : rows[k].file = f}) = 1
             /\ \A k \in 1..Len(rows) :
                   rows[k].file = f =>
                      LET us == files[f].data.units
                      IN  /\ rows[k].col = "EMPTY" <=> us = <<>>
                          /\ rows[k].col = "MIXED"
                                <=> (us # <<>> /\ OverHalf(us) = {})
                          /\ rows[k].col = "MIXED" => ShowsMostFrequent(rows[k], us)
                          /\ rows[k].col = "ID" <=> OverHalf(us) # {}

\* C8 amended: every analysed file has one row; it is EMPTY exactly when
\* the unit list is empty or no unit lists a faction, MIXED with the most
\* frequent faction shown exactly when some unit lists a faction and no
\* faction exceeds 50%, and a candidate list otherwise.
C8_ThreeOutcomesNoFactionData ==
    /\ \A k \in 1..Len(rows) : Analysed(rows[k].file)
    /\ \A f \in DataFiles :
          Analysed(f) =>
             /\ Cardinality({k \in 1..Len(rows) : rows[k].file = f}) = 1
             /\ \A k \in 1..Len(rows) :
                   rows[k].file = f =>
                      LET us == files[f].data.units
                      IN  /\ rows[k].col = "EMPTY" <=> FidsIn(us) = {}
                          /\ rows[k].col = "MIXED"
                                <=> (FidsIn(us) # {} /\ OverHalf(us) = {})
                          /\ rows[k].col = "MIXED" => ShowsMostFrequent(rows[k], us)
                          /\ rows[k].col = "ID" <=> OverHalf(us) # {}

\* one file was reported EMPTY although it has units, and another one
\* MIXED with a top faction that is more frequent than another faction
C8_Witness ==
    /\ fpc = "done"
    /\ \E k \in 1..Len(rows) :
          rows[k].col = "EMPTY" /\ UnitsOfRow(k) # <<>>
    /\ \E k \in 1..Len(rows) :
          /\ rows[k].col = "MIXED"
          /\ \E fid \in FidsIn(UnitsOfRow(k)) :
                Occurrences(UnitsOfRow(k), fid) < rows[k].top.count

====
